---- MODULE Spec2Model ----
(***************************************************************************)
(* State machine of the issue dashboard's Home component                   *)
(* (github-issues-dashboard/src/app/page.tsx) together with the issue      *)
(* proxy it calls (github-issues-dashboard/src/app/api/issues/route.ts).   *)
(*                                                                         *)
(* One action is one browser event (a click, a change, a fetch settling,   *)
(* the mount) followed by the renders and effects React runs before the    *)
(* next event can be delivered.                                            *)
(***************************************************************************)
EXTENDS Integers, Sequences, FiniteSets, TLC

\* ------------------------------------------------------------------ bounds
\* Issue numbers of a repository are 1..MaxNumber.
MaxNumber == 2
\* The wall clock advances in steps of one month, MaxNow times.
MaxNow == 1

Numbers == 1..MaxNumber

\* ------------------------------------------------------------------ state
VARIABLES
  owner,           \* useState("")
  repo,            \* useState("")
  issues,          \* useState<Issue[]>([])
  loading,         \* useState(false)
  trackedIssues,   \* useState<TrackedIssue[]>([])
  selectedMonth,   \* useState(getCurrentMonthYear())
  isInitialized,   \* useState(false)
  localStorage,    \* the browser's store, per key
  inflight,        \* the fetchIssues calls awaiting their response, with the
                   \* owner and repo each one captured
  now,             \* the wall clock
  renderError,     \* a render or an effect of Home threw: React has unmounted it
  quotaExceeded    \* the store is full: localStorage.setItem throws

vars == <<owner, repo, issues, loading, trackedIssues, selectedMonth, isInitialized,
          localStorage, inflight, now, renderError, quotaExceeded>>

\* ------------------------------------------------------------- JS values
\* `null`: the assignee of an issue nobody is assigned to.
Null == "null"
Logins == {"alice"}
Assignees == {Null} \cup Logins

\* {...a, ...b}: the fields of b override those of a.
Spread(a, b) == b @@ a

RECURSIVE SeqFilter(_, _)
\* Array.prototype.filter for the predicate "is a member of keep".
SeqFilter(s, keep) ==
  IF s = <<>> THEN <<>>
  ELSE IF Head(s) \in keep THEN <<Head(s)>> \o SeqFilter(Tail(s), keep)
  ELSE SeqFilter(Tail(s), keep)

Range(s) == {s[i] : i \in 1..Len(s)}

\* ----------------------------------------------------------------- dates
\* The wall clock: `now` counts months since December 2024.
DateOf(t) == [year |-> 2024 + ((11 + t) \div 12), month0 |-> (11 + t) % 12]

RECURSIVE DecimalDigits(_)
\* String(n) for n >= 0, as a sequence of one-character strings.
DecimalDigits(n) ==
  LET d == <<"0", "1", "2", "3", "4", "5", "6", "7", "8", "9">>[(n % 10) + 1]
  IN IF n < 10 THEN <<d>> ELSE DecimalDigits(n \div 10) \o <<d>>

RECURSIVE padStart(_, _, _)
padStart(s, len, fill) == IF Len(s) >= len THEN s ELSE padStart(<<fill>> \o s, len, fill)

\* `${now.getFullYear()}-${String(now.getMonth() + 1).padStart(2, "0")}`
getCurrentMonthYear(t) ==
  DecimalDigits(DateOf(t).year) \o <<"-">> \o padStart(DecimalDigits(DateOf(t).month0 + 1), 2, "0")

\* new Date().toISOString(), to the precision of the clock.
toISOString(t) == getCurrentMonthYear(t) \o <<"-", "0", "1", "T">>

\* UTF-16 code unit of the characters a month string is made of.
CharCode(c) ==
  CASE c = "-" -> 45
    [] c = "0" -> 48 [] c = "1" -> 49 [] c = "2" -> 50 [] c = "3" -> 51
    [] c = "4" -> 52 [] c = "5" -> 53 [] c = "6" -> 54 [] c = "7" -> 55
    [] c = "8" -> 56 [] c = "9" -> 57 [] c = "T" -> 84

RECURSIVE StrLess(_, _)
\* a < b in the order Array.prototype.sort() uses by default (code units).
StrLess(a, b) ==
  IF b = <<>> THEN FALSE
  ELSE IF a = <<>> THEN TRUE
  ELSE IF CharCode(Head(a)) # CharCode(Head(b)) THEN CharCode(Head(a)) < CharCode(Head(b))
  ELSE StrLess(Tail(a), Tail(b))

RECURSIVE SortAsc(_)
\* Array.from(set).sort(), without the reverse().
SortAsc(S) ==
  IF S = {} THEN <<>>
  ELSE LET bottom == CHOOSE x \in S : \A y \in S \ {x} : StrLess(x, y)
       IN <<bottom>> \o SortAsc(S \ {bottom})

RECURSIVE SortDesc(_)
\* Array.from(set).sort().reverse()
SortDesc(S) ==
  IF S = {} THEN <<>>
  ELSE LET top == CHOOSE x \in S : \A y \in S \ {x} : StrLess(y, x)
       IN <<top>> \o SortDesc(S \ {top})

getAvailableMonths(tracked) == SortDesc({tracked[i].monthYear : i \in 1..Len(tracked)})

\* The month options without the push of the current month.
availableMonthsAsTracked(tracked, t) == getAvailableMonths(tracked)

\* The month options the selectors render.
availableMonths(tracked, t) ==
  IF Len(getAvailableMonths(tracked)) = 0 THEN <<getCurrentMonthYear(t)>>
  ELSE getAvailableMonths(tracked)

\* --------------------------------------------------------------- storage
\* localStorage holds, per key, no item (getItem gives null) or a JSON text.
Keys == {"trackedIssues", "selectedMonth", "repoOwner", "repoName"}
NoItem == <<>>

\* JSON.stringify / JSON.parse: the JSON text of an array or a string is kept
\* as the one-element tuple of the value it denotes; the text null and a text
\* that is no JSON are kept by their characters.
JSONstringify(data) == <<data>>
JSONnull == <<"n", "u", "l", "l">>
NotJSON == <<"{", "{">>
parseThrows(text) == text = NotJSON
JSONparse(text) == IF text = JSONnull THEN Null ELSE text[1]

\* Whether the item under a key parses to null.
loadsNull(ls, key) == ls[key] = JSONnull

\* localStorage.setItem throws when the quota is exceeded.
setItemThrows == quotaExceeded

\* A throw that nothing catches.
uncaught(thrown) == thrown

\* What a catch block lets through of a throw in its try block: nothing.
caught(thrown) == FALSE

\* localStorage.setItem(key, JSON.stringify(data)) inside try/catch.
saveToLocalStorage(ls, key, data) ==
  IF setItemThrows THEN ls ELSE [ls EXCEPT ![key] = JSONstringify(data)]

\* Whether a saveToLocalStorage call throws to its caller.
saveToLocalStorageThrows == caught(setItemThrows)

\* item ? JSON.parse(item) : defaultValue, defaultValue on a throw.
loadFromLocalStorage(ls, key, defaultValue) ==
  IF ls[key] = NoItem THEN defaultValue
  ELSE IF parseThrows(ls[key]) THEN defaultValue
  ELSE JSONparse(ls[key])

removeItem(ls, key) == [ls EXCEPT ![key] = NoItem]

\* ------------------------------------------------------------ the proxy
OwnerNames == {"acme"}
RepoNames == {"app"}
Owners == {""} \cup OwnerNames
Repos == {""} \cup RepoNames
\* Another repository of the same owners, with issue numbers of its own.
OtherRepoNames == {"lib"}

\* What api.github.com holds for one issue number of a repository: nothing, a
\* pull request, or an issue with its assignee and its timeline (holding a
\* "merged" event with a commit, holding none, or answered by an error object).
absentKind == [kind |-> "absent", assignee |-> Null, timeline |-> "plain"]
pullRequestKind == [kind |-> "pull_request", assignee |-> Null, timeline |-> "plain"]
RawKinds ==
  {absentKind, pullRequestKind}
  \cup [kind : {"issue"}, assignee : Assignees, timeline : {"merged", "plain", "error"}]

RECURSIVE RawList(_, _, _, _)
\* The upstream array, newest (highest number) first.
RawList(o, r, c, n) ==
  IF n = 0 THEN <<>>
  ELSE IF c[n].kind = "absent" THEN RawList(o, r, c, n - 1)
  ELSE <<[number |-> n, html_url |-> <<o, r, n>>, raw |-> c[n]]>> \o RawList(o, r, c, n - 1)

\* The answers api.github.com can give for /repos/o/r/issues: an array for a
\* repository that exists, an error object otherwise (or when rate limited).
UpstreamAnswers(o, r) ==
  {[isArray |-> FALSE, items |-> <<>>]}
  \cup (IF o \in OwnerNames /\ r \in RepoNames \cup OtherRepoNames
        THEN {[isArray |-> TRUE, items |-> RawList(o, r, c, MaxNumber)] : c \in [Numbers -> RawKinds]}
        ELSE {})

\* route.ts, the .map() callback: the issue with merged: !!mergedPR.
annotate(item) ==
  [number |-> item.number, html_url |-> item.html_url, assignee |-> item.raw.assignee,
   merged |-> (item.raw.timeline = "merged")]

RECURSIVE routeIssues(_)
\* (Array.isArray(issuesData) ? issuesData : []).filter(!pull_request).map(...)
routeIssues(items) ==
  IF items = <<>> THEN <<>>
  ELSE IF Head(items).raw.kind = "pull_request" THEN routeIssues(Tail(items))
  ELSE <<annotate(Head(items))>> \o routeIssues(Tail(items))

\* GET /api/issues: the JSON body of the response.
GET(o, r, answer) ==
  LET issuesOut == routeIssues(IF answer.isArray THEN answer.items ELSE <<>>)
  IN [repo |-> <<o, r>>, count |-> Len(issuesOut), issues |-> issuesOut]

\* The bodies the proxy can answer a request for o/r with.
Responses ==
  [o \in Owners, r \in Repos \cup OtherRepoNames |->
     {GET(o, r, a) : a \in UpstreamAnswers(o, r)}]

\* The body the proxy makes of an upstream answer that is no array.
ErrorResponse(o, r) == GET(o, r, [isArray |-> FALSE, items |-> <<>>])

\* ------------------------------------------------------ the engine's rules
Statuses == {"EMPTY", "IN_PROGRESS", "MERGED"}

IsMerged(issue) == "merged" \in DOMAIN issue /\ issue.merged = TRUE
HasAssignee(issue) == issue.assignee # Null

\* addToTracking testing the assignee before the merge.
deriveAssigneeFirst(issue) ==
  IF HasAssignee(issue) THEN "IN_PROGRESS"
  ELSE IF IsMerged(issue) THEN "MERGED"
  ELSE "EMPTY"

\* addToTracking: let status = "EMPTY"; if (issue.merged) ... else if (issue.assignee) ...
deriveAtTrack(issue) ==
  IF IsMerged(issue) THEN "MERGED"
  ELSE IF HasAssignee(issue) THEN "IN_PROGRESS"
  ELSE "EMPTY"

\* The reconcile effect without its final else: newStatus keeps tracked.status.
deriveKeepingStatus(updatedIssue, tracked) ==
  IF IsMerged(updatedIssue) THEN "MERGED"
  ELSE IF HasAssignee(updatedIssue) THEN "IN_PROGRESS"
  ELSE tracked.status

\* The reconcile effect: let newStatus = tracked.status; if ... else if ... else ...
deriveAtReconcile(updatedIssue, tracked) ==
  IF IsMerged(updatedIssue) THEN "MERGED"
  ELSE IF HasAssignee(updatedIssue) THEN "IN_PROGRESS"
  ELSE "EMPTY"

\* issues.find(i => i.number === n): the index of the first match, 0 for none.
FindIndex(list, n) ==
  IF \E i \in 1..Len(list) : list[i].number = n
  THEN CHOOSE i \in 1..Len(list) :
         /\ list[i].number = n
         /\ \A j \in 1..(i - 1) : list[j].number # n
  ELSE 0

\* The callback of prev.map deriving a status for an issue that is not found.
reconcileOneResetting(tracked, fresh) ==
  IF FindIndex(fresh, tracked.number) = 0 THEN Spread(tracked, [status |-> "EMPTY"])
  ELSE LET updatedIssue == fresh[FindIndex(fresh, tracked.number)]
       IN Spread(Spread(tracked, updatedIssue),
                 [status |-> deriveAtReconcile(updatedIssue, tracked)])

\* The callback of prev.map returning early when the fetched fields are those
\* the tracked issue already has.
reconcileOneSkipping(tracked, fresh) ==
  IF FindIndex(fresh, tracked.number) = 0 THEN tracked
  ELSE LET updatedIssue == fresh[FindIndex(fresh, tracked.number)]
       IN IF \A f \in DOMAIN updatedIssue : tracked[f] = updatedIssue[f] THEN tracked
          ELSE Spread(Spread(tracked, updatedIssue),
                      [status |-> deriveAtReconcile(updatedIssue, tracked)])

\* The callback of prev.map in the reconcile effect.
reconcileOne(tracked, fresh) ==
  IF FindIndex(fresh, tracked.number) = 0 THEN tracked
  ELSE LET updatedIssue == fresh[FindIndex(fresh, tracked.number)]
       IN Spread(Spread(tracked, updatedIssue),
                 [status |-> deriveAtReconcile(updatedIssue, tracked)])

\* The reconcile effect setting the collection to the tracked issues the
\* fetched list holds.
reconcileFetchedOnly(prev, fresh) ==
  LET matched == SeqFilter(prev, {e \in Range(prev) : FindIndex(fresh, e.number) # 0})
  IN [i \in 1..Len(matched) |-> reconcileOne(matched[i], fresh)]

reconcile(prev, fresh) == [i \in 1..Len(prev) |-> reconcileOne(prev[i], fresh)]

\* The reconcile effect, run when `issues` has changed.
reconcileEffect(tracked, fresh) ==
  IF Len(fresh) > 0 /\ Len(tracked) > 0 THEN reconcile(tracked, fresh) ELSE tracked

\* trackedIssues.some(t => t.number === n)
isAlreadyTracked(tracked, n) == \E i \in 1..Len(tracked) : tracked[i].number = n

\* The TrackedIssue filed under the calendar month instead of the selected one.
newTrackedIssueThisMonth(issue, month, t) ==
  Spread(issue, [status |-> deriveAtTrack(issue), dateAdded |-> toISOString(t),
                 monthYear |-> getCurrentMonthYear(t)])

\* The TrackedIssue addToTracking builds: {...issue, status, dateAdded, monthYear}.
newTrackedIssue(issue, month, t) ==
  Spread(issue, [status |-> deriveAtTrack(issue), dateAdded |-> toISOString(t), monthYear |-> month])

\* addToTracking filing a tracked issue anew, under the selected month.
trackRefiling(tracked, issue, month, t) ==
  IF isAlreadyTracked(tracked, issue.number)
  THEN [i \in 1..Len(tracked) |->
          IF tracked[i].number = issue.number THEN newTrackedIssue(issue, month, t)
          ELSE tracked[i]]
  ELSE Append(tracked, newTrackedIssue(issue, month, t))

\* addToTracking without its isAlreadyTracked test.
trackUnchecked(tracked, issue, month, t) == Append(tracked, newTrackedIssue(issue, month, t))

\* addToTracking's result for the collection.
track(tracked, issue, month, t) ==
  IF isAlreadyTracked(tracked, issue.number) THEN tracked
  ELSE Append(tracked, newTrackedIssue(issue, month, t))

\* updateIssueStatus matching the issues from issueNumber on.
setStatusFrom(prev, issueNumber, newStatus) ==
  [i \in 1..Len(prev) |->
     IF prev[i].number >= issueNumber THEN Spread(prev[i], [status |-> newStatus])
     ELSE prev[i]]

\* updateIssueStatus's prev.map.
setStatus(prev, issueNumber, newStatus) ==
  [i \in 1..Len(prev) |->
     IF prev[i].number = issueNumber THEN Spread(prev[i], [status |-> newStatus]) ELSE prev[i]]

\* removeFromTracking cutting the collection at the issue.
removeFromThere(prev, issueNumber) ==
  IF FindIndex(prev, issueNumber) = 0 THEN prev
  ELSE SubSeq(prev, 1, FindIndex(prev, issueNumber) - 1)

\* removeFromTracking's prev.filter.
remove(prev, issueNumber) == SeqFilter(prev, {e \in Range(prev) : e.number # issueNumber})

\* The filter on the month an issue was added in.
filterByMonthAdded(tracked, month) ==
  SeqFilter(tracked, {e \in Range(tracked) : SubSeq(e.dateAdded, 1, 7) = month})

\* trackedIssues.filter(issue => issue.monthYear === month)
filterByMonth(tracked, month) == SeqFilter(tracked, {e \in Range(tracked) : e.monthYear = month})

\* parseGithubUrl content with one path segment, the owner.
parseGithubUrlOwnerOnly(u) ==
  LET parts == IF u.parses THEN SeqFilter(u.split, Range(u.split) \ {""}) ELSE <<>>
  IN IF Len(parts) >= 2 THEN [ok |-> TRUE, owner |-> parts[1], repo |-> parts[2]]
     ELSE IF Len(parts) = 1 THEN [ok |-> TRUE, owner |-> parts[1], repo |-> ""]
     ELSE [ok |-> FALSE, owner |-> "", repo |-> ""]

\* parseGithubUrl: u is what new URL(url) makes of the text: it throws
\* (parses = FALSE) or gives a pathname, held as pathname.split("/").
parseGithubUrl(u) ==
  LET parts == IF u.parses THEN SeqFilter(u.split, Range(u.split) \ {""}) ELSE <<>>
  IN IF Len(parts) >= 2 THEN [ok |-> TRUE, owner |-> parts[1], repo |-> parts[2]]
     ELSE [ok |-> FALSE, owner |-> "", repo |-> ""]

\* The texts typed into the URL box.
Urls ==
  {[parses |-> FALSE, split |-> <<>>],
   [parses |-> TRUE, split |-> <<"", "">>],
   [parses |-> TRUE, split |-> <<"", "acme">>],
   [parses |-> TRUE, split |-> <<"", "acme", "app">>],
   [parses |-> TRUE, split |-> <<"", "acme", "", "app", "issues">>]}

\* ---------------------------------------------------------- the effects
\* The three save effects, run after a render in which their dependencies
\* changed; each one does nothing while isInitialized is false.
saveEffects(ls, initialized, trackedDep, tracked, monthDep, month, repoDep, o, r) ==
  LET ls1 == IF initialized /\ trackedDep
             THEN saveToLocalStorage(ls, "trackedIssues", tracked) ELSE ls
      ls2 == IF initialized /\ monthDep
             THEN saveToLocalStorage(ls1, "selectedMonth", month) ELSE ls1
  IN IF initialized /\ repoDep
     THEN saveToLocalStorage(saveToLocalStorage(ls2, "repoOwner", o), "repoName", r)
     ELSE ls2

\* Whether one of the save effects that run throws.
saveEffectsThrow(initialized, trackedDep, monthDep, repoDep) ==
  initialized /\ (trackedDep \/ monthDep \/ repoDep) /\ saveToLocalStorageThrows

\* trackedIssues.filter(...) in the body of Home throws when trackedIssues is
\* null.
renderThrows(trackedIsNull) == trackedIsNull

\* A fetchIssues call: setLoading(true) and the request, with the owner and
\* repo of the render the call was made from.
startFetch(pending, o, r) == Append(pending, [owner |-> o, repo |-> r])

\* The initial fetch effect without its test of isInitialized.
fetchEffectAtOnce(pending, initialized, o, r) == startFetch(pending, o, r)

\* The initial fetch effect, run after a render in which isInitialized has
\* changed or that was the first: if (isInitialized) fetchIssues().
fetchEffect(pending, initialized, o, r) ==
  IF initialized THEN startFetch(pending, o, r) ELSE pending

\* The component as constructed: the useState defaults, nothing loaded yet.
Init ==
  /\ now = 0
  /\ owner = ""
  /\ repo = ""
  /\ issues = <<>>
  /\ loading = FALSE
  /\ trackedIssues = <<>>
  /\ selectedMonth = getCurrentMonthYear(0)
  /\ isInitialized = FALSE
  /\ localStorage = [k \in Keys |-> NoItem]
  /\ inflight = <<>>
  /\ renderError = FALSE
  /\ quotaExceeded = FALSE

\* The mount: the effects of the first render, in their order (the load
\* effect, then the save effects and the fetch effect with the isInitialized
\* and the values of that render), then the render the load effect causes, in
\* which isInitialized has changed: the save effects and the fetch effect
\* again, or neither when that render throws.
Mount ==
  /\ ~isInitialized
  /\ ~renderError
  /\ LET savedTrackedIssues == loadFromLocalStorage(localStorage, "trackedIssues", <<>>)
         savedSelectedMonth ==
           loadFromLocalStorage(localStorage, "selectedMonth", getCurrentMonthYear(now))
         savedOwner == loadFromLocalStorage(localStorage, "repoOwner", "")
         savedRepo == loadFromLocalStorage(localStorage, "repoName", "")
         firstStore == saveEffects(localStorage, isInitialized, TRUE, trackedIssues,
                                   TRUE, selectedMonth, TRUE, owner, repo)
         firstInflight == fetchEffect(inflight, isInitialized, owner, repo)
     IN /\ trackedIssues' = savedTrackedIssues
        /\ selectedMonth' = savedSelectedMonth
        /\ owner' = savedOwner
        /\ repo' = savedRepo
        /\ isInitialized' = TRUE
        /\ IF renderThrows(loadsNull(localStorage, "trackedIssues"))
           THEN /\ renderError' = TRUE
                /\ localStorage' = firstStore
                /\ inflight' = firstInflight
           ELSE /\ renderError' = saveEffectsThrow(TRUE, TRUE, TRUE, TRUE)
                /\ localStorage' = saveEffects(firstStore, TRUE, TRUE, savedTrackedIssues,
                                               TRUE, savedSelectedMonth, TRUE, savedOwner,
                                               savedRepo)
                /\ inflight' = fetchEffect(firstInflight, TRUE, savedOwner, savedRepo)
        /\ loading' = (Len(inflight') > 0)
  /\ UNCHANGED <<issues, now, quotaExceeded>>

\* A Refresh button that is never disabled.
refreshAlwaysEnabled == TRUE

\* Whether the Refresh button can be clicked: disabled={loading}.
refreshEnabled == ~loading

\* A click on Refresh.
Refresh ==
  /\ isInitialized
  /\ ~renderError
  /\ refreshEnabled
  /\ loading' = TRUE
  /\ inflight' = startFetch(inflight, owner, repo)
  /\ UNCHANGED <<owner, repo, issues, trackedIssues, selectedMonth, isInitialized,
                 localStorage, now, renderError, quotaExceeded>>

\* A fetch settles with the body `data` of a response of the proxy:
\* setIssues(data.issues || []) and, in finally, setLoading(false); `issues`
\* has changed, so the reconcile effect runs, and the save effect after it
\* when it has set the collection.
FetchSucceeds(k, data) ==
  /\ ~renderError
  /\ k \in 1..Len(inflight)
  /\ data \in Responses[inflight[k].owner, inflight[k].repo]
  /\ issues' = data.issues
  /\ trackedIssues' = reconcileEffect(trackedIssues, issues')
  /\ localStorage' = saveEffects(localStorage, isInitialized,
                                 Len(issues') > 0 /\ Len(trackedIssues) > 0, trackedIssues',
                                 FALSE, selectedMonth, FALSE, owner, repo)
  /\ loading' = FALSE
  /\ inflight' = SubSeq(inflight, 1, k - 1) \o SubSeq(inflight, k + 1, Len(inflight))
  /\ renderError' = saveEffectsThrow(isInitialized,
                                    Len(issues') > 0 /\ Len(trackedIssues) > 0, FALSE, FALSE)
  /\ UNCHANGED <<owner, repo, selectedMonth, isInitialized, now, quotaExceeded>>

\* A fetch settles with a throw (fetch rejects, or res.json() throws on the
\* body of a failed route): only finally's setLoading(false) runs.
FetchThrows(k) ==
  /\ ~renderError
  /\ k \in 1..Len(inflight)
  /\ loading' = FALSE
  /\ inflight' = SubSeq(inflight, 1, k - 1) \o SubSeq(inflight, k + 1, Len(inflight))
  /\ UNCHANGED <<owner, repo, issues, trackedIssues, selectedMonth, isInitialized,
                 localStorage, now, renderError, quotaExceeded>>

\* A click on an issue's Track button.
addToTracking(issue) ==
  /\ isInitialized
  /\ ~renderError
  /\ issue \in Range(issues)
  /\ trackedIssues' = track(trackedIssues, issue, selectedMonth, now)
  /\ localStorage' = saveEffects(localStorage, isInitialized,
                                 ~isAlreadyTracked(trackedIssues, issue.number), trackedIssues',
                                 FALSE, selectedMonth, FALSE, owner, repo)
  /\ renderError' = saveEffectsThrow(isInitialized,
                                    ~isAlreadyTracked(trackedIssues, issue.number), FALSE, FALSE)
  /\ UNCHANGED <<owner, repo, issues, loading, selectedMonth, isInitialized, inflight,
                 now, quotaExceeded>>

\* updateIssueStatus(issueNumber, newStatus).
updateIssueStatus(issueNumber, newStatus) ==
  /\ isInitialized
  /\ ~renderError
  /\ trackedIssues' = setStatus(trackedIssues, issueNumber, newStatus)
  /\ localStorage' = saveEffects(localStorage, isInitialized, TRUE, trackedIssues',
                                 FALSE, selectedMonth, FALSE, owner, repo)
  /\ renderError' = saveEffectsThrow(isInitialized, TRUE, FALSE, FALSE)
  /\ UNCHANGED <<owner, repo, issues, loading, selectedMonth, isInitialized, inflight,
                 now, quotaExceeded>>

\* removeFromTracking(issueNumber).
removeFromTracking(issueNumber) ==
  /\ isInitialized
  /\ ~renderError
  /\ trackedIssues' = remove(trackedIssues, issueNumber)
  /\ localStorage' = saveEffects(localStorage, isInitialized, TRUE, trackedIssues',
                                 FALSE, selectedMonth, FALSE, owner, repo)
  /\ renderError' = saveEffectsThrow(isInitialized, TRUE, FALSE, FALSE)
  /\ UNCHANGED <<owner, repo, issues, loading, selectedMonth, isInitialized, inflight,
                 now, quotaExceeded>>

\* What clearAllData does to the store itself: the four removeItem calls.
clearStorage(ls) ==
  removeItem(removeItem(removeItem(removeItem(ls, "trackedIssues"), "selectedMonth"),
                        "repoOwner"), "repoName")

\* A click on Clear All (shown while something is tracked), confirmed or not.
clearAllData(confirmed) ==
  /\ isInitialized
  /\ ~renderError
  /\ Len(trackedIssues) > 0
  /\ IF confirmed
     THEN /\ trackedIssues' = <<>>
          /\ selectedMonth' = getCurrentMonthYear(now)
          /\ localStorage' = saveEffects(clearStorage(localStorage), isInitialized,
                                         TRUE, trackedIssues',
                                         selectedMonth' # selectedMonth, selectedMonth',
                                         FALSE, owner, repo)
     ELSE UNCHANGED <<trackedIssues, selectedMonth, localStorage>>
  /\ renderError' = saveEffectsThrow(isInitialized, confirmed,
                                    confirmed /\ selectedMonth' # selectedMonth, FALSE)
  /\ UNCHANGED <<owner, repo, issues, loading, isInitialized, inflight, now, quotaExceeded>>

\* The option a month selector shows as chosen: the one whose value is
\* selectedMonth, the first one when there is none.
shownMonth(options, month) == IF month \in Range(options) THEN month ELSE options[1]

\* The user picks another option of a month selector: setSelectedMonth.
selectMonth(m) ==
  /\ isInitialized
  /\ ~renderError
  /\ m \in Range(availableMonths(trackedIssues, now))
  /\ m # shownMonth(availableMonths(trackedIssues, now), selectedMonth)
  /\ selectedMonth' = m
  /\ localStorage' = saveEffects(localStorage, isInitialized, FALSE, trackedIssues,
                                 selectedMonth' # selectedMonth, selectedMonth',
                                 FALSE, owner, repo)
  /\ renderError' = saveEffectsThrow(isInitialized, FALSE, selectedMonth' # selectedMonth, FALSE)
  /\ UNCHANGED <<owner, repo, issues, loading, trackedIssues, isInitialized, inflight,
                 now, quotaExceeded>>

\* The user edits the Owner box: setOwner(e.target.value).
changeOwner(o) ==
  /\ isInitialized
  /\ ~renderError
  /\ o # owner
  /\ owner' = o
  /\ localStorage' = saveEffects(localStorage, isInitialized, FALSE, trackedIssues,
                                 FALSE, selectedMonth, TRUE, owner', repo)
  /\ renderError' = saveEffectsThrow(isInitialized, FALSE, FALSE, TRUE)
  /\ UNCHANGED <<repo, issues, loading, trackedIssues, selectedMonth, isInitialized,
                 inflight, now, quotaExceeded>>

\* The user edits the Repository box: setRepo(e.target.value).
changeRepo(r) ==
  /\ isInitialized
  /\ ~renderError
  /\ r # repo
  /\ repo' = r
  /\ localStorage' = saveEffects(localStorage, isInitialized, FALSE, trackedIssues,
                                 FALSE, selectedMonth, TRUE, owner, repo')
  /\ renderError' = saveEffectsThrow(isInitialized, FALSE, FALSE, TRUE)
  /\ UNCHANGED <<owner, issues, loading, trackedIssues, selectedMonth, isInitialized,
                 inflight, now, quotaExceeded>>

\* A click on Load Repo with the text u in the URL box.
handleUrlSubmit(u) ==
  /\ isInitialized
  /\ ~renderError
  /\ LET parsed == parseGithubUrl(u)
     IN IF parsed.ok
        THEN /\ owner' = parsed.owner
             /\ repo' = parsed.repo
             /\ localStorage' = saveEffects(localStorage, isInitialized, FALSE, trackedIssues,
                                            FALSE, selectedMonth,
                                            owner' # owner \/ repo' # repo, owner', repo')
        ELSE UNCHANGED <<owner, repo, localStorage>>
  /\ renderError' = saveEffectsThrow(isInitialized, FALSE, FALSE,
                                    owner' # owner \/ repo' # repo)
  /\ UNCHANGED <<issues, loading, trackedIssues, selectedMonth, isInitialized, inflight,
                 now, quotaExceeded>>

\* The page is loaded again: a new component with the useState defaults; the
\* store is kept, the requests of the old page are gone.
Reload ==
  /\ isInitialized
  /\ owner' = ""
  /\ repo' = ""
  /\ issues' = <<>>
  /\ loading' = FALSE
  /\ trackedIssues' = <<>>
  /\ selectedMonth' = getCurrentMonthYear(now)
  /\ isInitialized' = FALSE
  /\ inflight' = <<>>
  /\ renderError' = FALSE
  /\ UNCHANGED <<localStorage, now, quotaExceeded>>

\* Time passes.
Tick ==
  /\ now < MaxNow
  /\ now' = now + 1
  /\ UNCHANGED <<owner, repo, issues, loading, trackedIssues, selectedMonth, isInitialized,
                 localStorage, inflight, renderError, quotaExceeded>>

\* The store fills up (other pages of the origin write to it) or is emptied
\* enough for writes to succeed again; its items stay.
Quota(full) ==
  /\ full # quotaExceeded
  /\ quotaExceeded' = full
  /\ UNCHANGED <<owner, repo, issues, loading, trackedIssues, selectedMonth, isInitialized,
                 localStorage, inflight, now, renderError>>

\* The events all specifications share.
Events ==
  \/ Mount
  \/ Refresh
  \/ \E k \in 1..Len(inflight) :
       \E data \in Responses[inflight[k].owner, inflight[k].repo] : FetchSucceeds(k, data)
  \/ \E k \in 1..Len(inflight) : FetchThrows(k)
  \/ \E issue \in Range(issues) : addToTracking(issue)
  \/ \E n \in Numbers : removeFromTracking(n)
  \/ \E c \in BOOLEAN : clearAllData(c)
  \/ ~renderError /\ \E m \in Range(availableMonths(trackedIssues, now)) : selectMonth(m)
  \/ \E u \in Urls : handleUrlSubmit(u)
  \/ Reload
  \/ Tick

\* The engine with all its commands, updateIssueStatus among them; the
\* repository is chosen with Load Repo.
Next ==
  \/ Events
  \/ \E n \in Numbers : \E s \in Statuses : updateIssueStatus(n, s)

Spec == Init /\ [][Next]_vars

\* The page as rendered: the Owner and Repository boxes are among its events,
\* and no element of it calls updateIssueStatus.
NextPage ==
  \/ Events
  \/ \E o \in Owners : changeOwner(o)
  \/ \E r \in Repos : changeRepo(r)

SpecPage == Init /\ [][NextPage]_vars

\* The page used on two repositories in turn: one loaded by its URL, the
\* other by typing its name into the Repository box.
NextRepos ==
  \/ Mount
  \/ Refresh
  \/ \E k \in 1..Len(inflight) :
       \E data \in Responses[inflight[k].owner, inflight[k].repo] : FetchSucceeds(k, data)
  \/ \E issue \in Range(issues) : addToTracking(issue)
  \/ \E u \in Urls : handleUrlSubmit(u)
  \/ \E r \in RepoNames \cup OtherRepoNames : changeRepo(r)

SpecRepos == Init /\ [][NextRepos]_vars

\* What a user's store can hold under "trackedIssues" when the page is opened:
\* nothing, a text that is no JSON, the JSON text null, or a saved collection.
StoredTrackedIssues(content) ==
  CASE content = "missing" -> NoItem
    [] content = "not JSON" -> NotJSON
    [] content = "null" -> JSONnull
    [] content = "empty" -> JSONstringify(<<>>)
    [] content = "saved" ->
         JSONstringify(<<newTrackedIssue([number |-> 1, html_url |-> <<"acme", "app", 1>>,
                                          assignee |-> Null, merged |-> FALSE],
                                         getCurrentMonthYear(0), 0)>>)

\* What it can hold under the other keys: nothing, a text that is no JSON, or
\* a saved value.
StoredText(content, saved) ==
  CASE content = "missing" -> NoItem
    [] content = "not JSON" -> NotJSON
    [] content = "saved" -> JSONstringify(saved)

\* The component as constructed in a browser whose store has a content of
\* its own.
InitStored ==
  /\ now = 0
  /\ owner = ""
  /\ repo = ""
  /\ issues = <<>>
  /\ loading = FALSE
  /\ trackedIssues = <<>>
  /\ selectedMonth = getCurrentMonthYear(0)
  /\ isInitialized = FALSE
  /\ \E t \in {"missing", "not JSON", "null", "empty", "saved"} :
       \E m, o \in {"missing", "not JSON", "saved"} :
         localStorage = [trackedIssues |-> StoredTrackedIssues(t),
                         selectedMonth |-> StoredText(m, getCurrentMonthYear(0)),
                         repoOwner |-> StoredText(o, "acme"),
                         repoName |-> StoredText(o, "app")]
  /\ inflight = <<>>
  /\ renderError = FALSE
  /\ quotaExceeded = FALSE

\* The page opened on such a store: the load, and the commands that act on
\* what was loaded.
NextStored ==
  \/ Mount
  \/ Refresh
  \/ \E k \in 1..Len(inflight) :
       \E data \in Responses[inflight[k].owner, inflight[k].repo] : FetchSucceeds(k, data)
  \/ \E issue \in Range(issues) : addToTracking(issue)
  \/ \E n \in Numbers : removeFromTracking(n)
  \/ ~renderError /\ \E m \in Range(availableMonths(trackedIssues, now)) : selectMonth(m)
  \/ Reload
  \/ Tick

SpecStored == InitStored /\ [][NextStored]_vars

\* One session of the page, from its mount, with a store that fills up at
\* some moment.
NextQuota ==
  \/ Mount
  \/ Refresh
  \/ \E k \in 1..Len(inflight) :
       \E data \in Responses[inflight[k].owner, inflight[k].repo] : FetchSucceeds(k, data)
  \/ \E issue \in Range(issues) : addToTracking(issue)
  \/ \E n \in Numbers : removeFromTracking(n)
  \/ \E c \in BOOLEAN : clearAllData(c)
  \/ \E u \in Urls : handleUrlSubmit(u)
  \/ Tick
  \/ Quota(TRUE)

SpecQuota == Init /\ [][NextQuota]_vars

\* ----------------------------------------------------------------- claims
\* The status table of the design (section 4.1), on the fields of an issue.
derive(merged, assignee) ==
  CASE merged = "true" -> "MERGED"
    [] merged # "true" /\ assignee # Null -> "IN_PROGRESS"
    [] merged # "true" /\ assignee = Null -> "EMPTY"

\* The merged flag of an issue as the table reads it.
mergedOf(issue) ==
  IF "merged" \notin DOMAIN issue THEN "absent" ELSE IF issue.merged THEN "true" ELSE "false"

\* A step in which a fetch settles with a response of the proxy.
FetchSuccessStep ==
  /\ Len(inflight') < Len(inflight)
  /\ \E k \in 1..Len(inflight) :
       FetchSucceeds(k, [repo |-> <<inflight[k].owner, inflight[k].repo>>,
                         count |-> Len(issues'), issues |-> issues'])

TrackedNumbers == {trackedIssues[i].number : i \in 1..Len(trackedIssues)}
FetchedNumbers == {issues[i].number : i \in 1..Len(issues)}

\* C1, first half: no two entries of the tracked collection have the same
\* issue number.
OnePerNumber ==
  \A i, j \in 1..Len(trackedIssues) :
    trackedIssues[i].number = trackedIssues[j].number => i = j

\* C1, second half: a click on Track for an issue whose number is tracked
\* leaves the collection as it is.
RetrackIsNoop ==
  \A issue \in Range(issues) :
    (addToTracking(issue) /\ issue.number \in TrackedNumbers) => trackedIssues' = trackedIssues

\* C1: at most one entry per issue number in every reachable state, and
\* tracking a tracked number changes nothing, whatever month is selected.
C1_OneEntryPerNumber == []OnePerNumber /\ [][RetrackIsNoop]_vars

\* C1 witness: two issues tracked under different months, one of them offered
\* for tracking again while the other month is selected.
C1_Witness ==
  /\ Len(trackedIssues) = 2
  /\ trackedIssues[1].monthYear # trackedIssues[2].monthYear
  /\ \E issue \in Range(issues) :
       \E i \in 1..2 : trackedIssues[i].number = issue.number
                        /\ trackedIssues[i].monthYear # selectedMonth

\* C2: when a fetch succeeds with the list F, every tracked issue whose number
\* matches an f of F gets f's fields and the status derive(f), whatever its
\* status was, and keeps its place, its dateAdded and its monthYear.
C2_ReconcileOverwrites ==
  [][FetchSuccessStep =>
       /\ Len(trackedIssues') = Len(trackedIssues)
       /\ \A i \in 1..Len(trackedIssues) : \A j \in 1..Len(issues') :
            issues'[j].number = trackedIssues[i].number =>
              /\ trackedIssues'[i].status = derive(mergedOf(issues'[j]), issues'[j].assignee)
              /\ \A f \in DOMAIN issues'[j] : trackedIssues'[i][f] = issues'[j][f]
              /\ trackedIssues'[i].dateAdded = trackedIssues[i].dateAdded
              /\ trackedIssues'[i].monthYear = trackedIssues[i].monthYear]_vars

\* C2 witness: the first of two tracked issues was tracked before the last
\* fetch (the second one, tracked after it, is not in the fetched list, so
\* the fetch came later), is in the fetched list, unassigned and unmerged, and
\* has the status EMPTY the pass derived.
C2_Witness ==
  /\ Len(trackedIssues) = 2
  /\ trackedIssues[2].number \notin FetchedNumbers
  /\ \E j \in 1..Len(issues) :
       /\ issues[j].number = trackedIssues[1].number
       /\ issues[j].assignee = Null /\ ~issues[j].merged
       /\ trackedIssues[1].status = "EMPTY"
       /\ trackedIssues[1].assignee = Null

\* C3: when a fetch succeeds, every tracked issue whose number is not in the
\* fetched list is, field for field, what it was.
C3_UnmatchedUntouched ==
  [][FetchSuccessStep =>
       /\ Len(trackedIssues') = Len(trackedIssues)
       /\ \A i \in 1..Len(trackedIssues) :
            (\A j \in 1..Len(issues') : issues'[j].number # trackedIssues[i].number)
              => trackedIssues'[i] = trackedIssues[i]]_vars

\* C3 witness: a fetched list that is not empty, holds one tracked issue and
\* lacks another (tracked before that fetch, since Track takes its issue from
\* the list), which still has the status MERGED.
C3_Witness ==
  /\ Len(issues) > 0
  /\ \E i \in 1..Len(trackedIssues) :
       /\ trackedIssues[i].number \notin FetchedNumbers
       /\ trackedIssues[i].status = "MERGED"
       /\ \E j \in 1..Len(trackedIssues) : trackedIssues[j].number \in FetchedNumbers

\* The tracked issue with the number n is merged upstream as last fetched and
\* has the status EMPTY, which only a manual override gives it.
OverriddenToEmpty(n) ==
  \E i \in 1..Len(trackedIssues) :
    /\ trackedIssues[i].number = n
    /\ IsMerged(trackedIssues[i])
    /\ trackedIssues[i].status = "EMPTY"

\* A reconcile pass that matches the issue n.
ReconcilesNumber(n) == FetchSuccessStep /\ \E j \in 1..Len(issues') : issues'[j].number = n

\* The next pass whose fetch reports n merged makes its status MERGED.
ClobberedByPass(n) ==
  (FetchSuccessStep /\ \E j \in 1..Len(issues') : issues'[j].number = n /\ IsMerged(issues'[j]))
    => \A i \in 1..Len(trackedIssues') :
         trackedIssues'[i].number = n => trackedIssues'[i].status = "MERGED"

\* The entry of n, where there still is one, has the status EMPTY.
StaysEmpty(n) ==
  \A i \in 1..Len(trackedIssues') :
    trackedIssues'[i].number = n => trackedIssues'[i].status = "EMPTY"

\* C4 as stated: an issue overridden to EMPTY while merged keeps EMPTY through
\* every step that is no reconcile pass matching it, and the next pass that
\* reports it merged makes it MERGED.
C4_AsStated ==
  [][\A n \in Numbers : OverriddenToEmpty(n) =>
       /\ ClobberedByPass(n)
       /\ ~ReconcilesNumber(n) => StaysEmpty(n)]_vars

\* C4 amended: an issue overridden to EMPTY while merged keeps EMPTY through
\* every step that is neither a reconcile pass matching it nor a further
\* manual status change of it, and the next pass that reports it merged makes
\* it MERGED.
C4_ClobberScenario ==
  [][\A n \in Numbers : OverriddenToEmpty(n) =>
       /\ ClobberedByPass(n)
       /\ (~ReconcilesNumber(n) /\ ~\E s \in Statuses : updateIssueStatus(n, s))
            => StaysEmpty(n)]_vars

\* C4 witness: an issue overridden to EMPTY, still listed as merged by the
\* last fetch, with the next fetch on its way.
C4_Witness ==
  \E j \in 1..Len(issues) :
    /\ OverriddenToEmpty(issues[j].number)
    /\ IsMerged(issues[j])
    /\ loading

\* The issues the two derivations are compared on: with merged true, false
\* and absent, with and without assignee.
IssueShapes ==
  [number : {1}, html_url : {<<"acme", "app", 1>>}, assignee : Assignees, merged : BOOLEAN]
  \cup [number : {1}, html_url : {<<"acme", "app", 1>>}, assignee : Assignees]

\* C5: on every issue, fetched or of any other shape, the derivation at track
\* time and the one at reconcile time (whatever the status before) both give
\* MERGED when merged, else IN_PROGRESS with an assignee, else EMPTY.
C5_DeriveTable ==
  \A issue \in IssueShapes \cup Range(issues) \cup Range(trackedIssues) :
    /\ deriveAtTrack(issue) = derive(mergedOf(issue), issue.assignee)
    /\ \A s \in Statuses :
         deriveAtReconcile(issue, [status |-> s]) = derive(mergedOf(issue), issue.assignee)

\* C5 witness: two tracked issues, both merged, one with and one without
\* assignee, both with the status MERGED.
C5_Witness ==
  /\ Len(trackedIssues) = 2
  /\ \A i \in 1..2 : IsMerged(trackedIssues[i]) /\ trackedIssues[i].status = "MERGED"
  /\ HasAssignee(trackedIssues[1]) /\ ~HasAssignee(trackedIssues[2])

\* C6: tracking an issue whose number is not tracked appends one entry, made
\* of the issue's fields, status derive(issue), the selected month and the
\* time of the click, and leaves the entries before it as they were.
C6_TrackAppends ==
  [][\A issue \in Range(issues) :
       (addToTracking(issue) /\ issue.number \notin TrackedNumbers) =>
         /\ Len(trackedIssues') = Len(trackedIssues) + 1
         /\ SubSeq(trackedIssues', 1, Len(trackedIssues)) = trackedIssues
         /\ LET e == trackedIssues'[Len(trackedIssues')]
            IN /\ \A f \in DOMAIN issue : e[f] = issue[f]
               /\ e.status = derive(mergedOf(issue), issue.assignee)
               /\ e.monthYear = selectedMonth
               /\ e.dateAdded = toISOString(now)]_vars

\* The month a dateAdded lies in.
monthOfDate(date) == SubSeq(date, 1, 7)

\* C6 witness: the second of two tracked issues was added in a month other
\* than the one it is filed under, the selected one.
C6_Witness ==
  /\ Len(trackedIssues) = 2
  /\ trackedIssues[2].monthYear = selectedMonth
  /\ monthOfDate(trackedIssues[2].dateAdded) # trackedIssues[2].monthYear

\* The tracked collection as it survives a reload: in memory once loaded, in
\* the store before.
Ledger ==
  IF isInitialized THEN trackedIssues
  ELSE loadFromLocalStorage(localStorage, "trackedIssues", <<>>)

\* C7: in every step, an issue tracked before and after it has the monthYear
\* and the dateAdded it had; so they change only by its removal and a new
\* track.
C7_MonthYearImmutable ==
  [][\A i \in 1..Len(Ledger) : \A j \in 1..Len(Ledger') :
       Ledger'[j].number = Ledger[i].number =>
         /\ Ledger'[j].monthYear = Ledger[i].monthYear
         /\ Ledger'[j].dateAdded = Ledger[i].dateAdded]_vars

\* C7 witness: an issue filed under an earlier month than the selected one,
\* in the fetched list, with a status other than the derived one.
C7_Witness ==
  \E i \in 1..Len(trackedIssues) :
    /\ trackedIssues[i].monthYear # selectedMonth
    /\ trackedIssues[i].monthYear # getCurrentMonthYear(now)
    /\ trackedIssues[i].number \in FetchedNumbers
    /\ trackedIssues[i].status # deriveAtTrack(trackedIssues[i])

\* A step in which a fetch fails: it throws, or the proxy passes on an
\* upstream answer that is no array.
FetchFailureStep ==
  /\ Len(inflight') < Len(inflight)
  /\ \E k \in 1..Len(inflight) :
       \/ FetchThrows(k)
       \/ /\ Len(issues') = 0
          /\ FetchSucceeds(k, ErrorResponse(inflight[k].owner, inflight[k].repo))

\* C8: a failed fetch leaves loading false, the issue list and the tracked
\* collection as they were, and starts no other fetch.
C8_FailureKeepsList ==
  [][FetchFailureStep =>
       /\ ~loading'
       /\ issues' = issues
       /\ trackedIssues' = trackedIssues
       /\ Len(inflight') = Len(inflight) - 1]_vars

\* C9, the state: never two fetches in flight, and loading exactly while
\* there is one.
OneFetchInFlight == Len(inflight) <= 1 /\ (loading <=> Len(inflight) = 1)

\* C9: at most one fetch is in flight, loading is true exactly while it is,
\* and every fetch starts from a state in which loading is false.
C9_OneFetchAtATime ==
  []OneFetchInFlight /\ [][Len(inflight') > Len(inflight) => ~loading]_vars

\* C9 witness: a refresh in flight on a page that has fetched a list before.
C9_Witness == isInitialized /\ loading /\ Len(inflight) = 1 /\ Len(issues) > 0

\* C10: once loaded, what a reload would read from the four keys is what
\* memory holds.
C10_StoreMirrorsMemory ==
  isInitialized =>
    /\ loadFromLocalStorage(localStorage, "trackedIssues", <<>>) = trackedIssues
    /\ loadFromLocalStorage(localStorage, "selectedMonth", getCurrentMonthYear(now))
         = selectedMonth
    /\ loadFromLocalStorage(localStorage, "repoOwner", "") = owner
    /\ loadFromLocalStorage(localStorage, "repoName", "") = repo

\* A text under "trackedIssues" that is no saved collection.
NoSavedCollection(text) == text = NoItem \/ text = NotJSON \/ text = JSONnull

\* C11: whatever the four keys hold when the page is opened (nothing, a text
\* that is no JSON, JSON of another shape such as null), the load leaves a
\* page that renders, with the empty collection, the current month and the
\* empty owner and repo in place of what it could not use.
C11_LoadFallsBack ==
  [][Mount =>
       /\ ~renderError'
       /\ NoSavedCollection(localStorage["trackedIssues"]) => <<>> = trackedIssues'
       /\ localStorage["selectedMonth"] \in {NoItem, NotJSON}
            => selectedMonth' = getCurrentMonthYear(now)
       /\ localStorage["repoOwner"] \in {NoItem, NotJSON} => owner' = ""
       /\ localStorage["repoName"] \in {NoItem, NotJSON} => repo' = ""]_vars

\* C12: a confirmed Clear All leaves the collection empty, the selected month
\* the current calendar month, and the current calendar month the one month
\* offered, whatever was tracked and selected before.
C12_ClearAllResets ==
  [][clearAllData(TRUE) =>
       /\ trackedIssues' = <<>>
       /\ selectedMonth' = getCurrentMonthYear(now)
       /\ availableMonths(trackedIssues', now') = <<getCurrentMonthYear(now)>>]_vars

\* C12 witness: nothing tracked, the month after the one the page was first
\* opened in selected and saved, and the owner in memory no longer in the
\* store, which is how Clear All leaves it.
C12_Witness ==
  /\ isInitialized
  /\ trackedIssues = <<>>
  /\ now = 1
  /\ selectedMonth = getCurrentMonthYear(now)
  /\ localStorage["selectedMonth"] = JSONstringify(selectedMonth)
  /\ owner # ""
  /\ localStorage["repoOwner"] = NoItem

\* The positions of the month options under which the issue at position i
\* of the collection is listed.
BucketsOf(i) ==
  {k \in 1..Len(availableMonths(trackedIssues, now)) :
     \E j \in 1..Len(filterByMonth(trackedIssues, availableMonths(trackedIssues, now)[k])) :
       filterByMonth(trackedIssues, availableMonths(trackedIssues, now)[k])[j] = trackedIssues[i]}

\* C13: every tracked issue is listed under exactly one of the months
\* offered, the lists of all months offered hold the tracked issues and
\* nothing else, and each list has its issues in the order of the collection.
C13_FilterPartitions ==
  /\ \A i \in 1..Len(trackedIssues) : Cardinality(BucketsOf(i)) = 1
  /\ \A k \in 1..Len(availableMonths(trackedIssues, now)) :
       LET bucket == filterByMonth(trackedIssues, availableMonths(trackedIssues, now)[k])
       IN /\ Range(bucket) \subseteq Range(trackedIssues)
          /\ \A a, b \in 1..Len(bucket) :
               a < b => FindIndex(trackedIssues, bucket[a].number)
                          < FindIndex(trackedIssues, bucket[b].number)

\* C13 witness: two tracked issues, the second filed under another month
\* than the first, and than the one it was added in.
C13_Witness ==
  /\ Len(trackedIssues) = 2
  /\ trackedIssues[1].monthYear # trackedIssues[2].monthYear
  /\ SubSeq(trackedIssues[2].dateAdded, 1, 7) # trackedIssues[2].monthYear

\* The clock reading in the month m.
ClockOf(m) == CHOOSE t \in 0..MaxNow : getCurrentMonthYear(t) = m

\* C14: the months offered are the monthYear values of the tracked issues,
\* each once, later months first; with nothing tracked, the current calendar
\* month alone; so there is always one.
C14_AvailableMonths ==
  LET months == availableMonths(trackedIssues, now)
  IN /\ Len(months) >= 1
     /\ Len(trackedIssues) = 0 => months = <<getCurrentMonthYear(now)>>
     /\ Len(trackedIssues) > 0 =>
          /\ Range(months) = {trackedIssues[i].monthYear : i \in 1..Len(trackedIssues)}
          /\ \A a, b \in 1..Len(months) : a < b => ClockOf(months[a]) > ClockOf(months[b])

\* C14 witness: two tracked issues, the first filed under the earlier month.
C14_Witness ==
  /\ Len(trackedIssues) = 2
  /\ ClockOf(trackedIssues[1].monthYear) < ClockOf(trackedIssues[2].monthYear)

C16_SetStatusFrame ==
  [][\A n \in Numbers : \A s \in Statuses : updateIssueStatus(n, s) =>
       /\ Len(trackedIssues') = Len(trackedIssues)
       /\ \A i \in 1..Len(trackedIssues) :
            IF trackedIssues[i].number = n
            THEN /\ trackedIssues'[i].status = s
                 /\ DOMAIN trackedIssues'[i] = DOMAIN trackedIssues[i]
                 /\ \A f \in DOMAIN trackedIssues[i] \ {"status"} :
                      trackedIssues'[i][f] = trackedIssues[i][f]
            ELSE trackedIssues'[i] = trackedIssues[i]]_vars

\* C16 witness: a merged issue with the status IN_PROGRESS and an issue nobody
\* is assigned to with the status MERGED: statuses only a manual change gives.
C16_Witness ==
  /\ Len(trackedIssues) = 2
  /\ IsMerged(trackedIssues[1]) /\ trackedIssues[1].status = "IN_PROGRESS"
  /\ ~IsMerged(trackedIssues[2]) /\ trackedIssues[2].status = "MERGED"

\* A text of the URL box that is no URL or has fewer than two path segments.
InvalidUrl(u) == ~u.parses \/ Cardinality({i \in DOMAIN u.split : u.split[i] # ""}) < 2

\* C17: submitting an invalid URL changes nothing: not the owner, the repo,
\* the fetched list, the collection, the selected month, the loading flag or
\* the store, and no fetch starts.
C17_InvalidUrlRejected ==
  [][\A u \in Urls : (InvalidUrl(u) /\ handleUrlSubmit(u)) =>
       UNCHANGED <<owner, repo, issues, trackedIssues, selectedMonth, loading, inflight,
                   localStorage>>]_vars

\* C17 witness: a page with a repository loaded, issues fetched and one of
\* them tracked, on which a URL can be submitted.
C17_Witness ==
  /\ isInitialized /\ ~loading
  /\ owner = "acme" /\ repo = "app"
  /\ Len(issues) > 0
  /\ Len(trackedIssues) > 0

\* C18: while writes to the store fail, no failure reaches the page, the
\* store keeps what it held (or loses what Clear All removes), and the
\* commands act on the values in memory: a track appends to the collection in
\* memory, a removal filters it, Clear All empties it and selects the current
\* month, a repository loaded is the one in memory afterwards.
C18_WriteFailureSwallowed ==
  [][(quotaExceeded /\ isInitialized /\ ~renderError) =>
       /\ ~renderError'
       /\ \A key \in Keys : localStorage'[key] = localStorage[key] \/ localStorage'[key] = NoItem
       /\ \A issue \in Range(issues) :
            (addToTracking(issue) /\ issue.number \notin TrackedNumbers) =>
              /\ Len(trackedIssues') = Len(trackedIssues) + 1
              /\ SubSeq(trackedIssues', 1, Len(trackedIssues)) = trackedIssues
              /\ trackedIssues'[Len(trackedIssues')].number = issue.number
       /\ \A n \in TrackedNumbers :
            removeFromTracking(n) =>
              /\ Len(trackedIssues') = Len(trackedIssues) - 1
              /\ \A i \in 1..Len(trackedIssues') : trackedIssues'[i].number # n
       /\ clearAllData(TRUE) =>
            trackedIssues' = <<>> /\ selectedMonth' = getCurrentMonthYear(now)
       /\ \A u \in Urls :
            (~InvalidUrl(u) /\ handleUrlSubmit(u)) => owner' = "acme" /\ repo' = "app"]_vars

\* C18 witness: the store is full and still holds the empty collection and
\* the empty owner it was last written with, while two issues of a repository
\* loaded since are tracked in memory, the second after the first.
C18_Witness ==
  /\ quotaExceeded /\ isInitialized /\ ~renderError
  /\ localStorage["trackedIssues"] = JSONstringify(<<>>)
  /\ localStorage["repoOwner"] = JSONstringify("")
  /\ owner = "acme"
  /\ Len(trackedIssues) = 2

\* C19: when a fetch succeeds, a tracked issue stays what it was unless the
\* fetched list holds the issue it was tracked from: one of another
\* repository with the same number changes neither its title, URL, assignee
\* nor status.
C19_ReconcileSameRepository ==
  [][FetchSuccessStep =>
       /\ Len(trackedIssues') = Len(trackedIssues)
       /\ \A i \in 1..Len(trackedIssues) :
            (\A j \in 1..Len(issues') : issues'[j].html_url # trackedIssues[i].html_url)
              => trackedIssues'[i] = trackedIssues[i]]_vars

\* C20: once the page has loaded, the selected month is one of the months
\* offered.
C20_SelectedMonthOffered ==
  (isInitialized /\ ~renderError)
    => \E k \in 1..Len(availableMonths(trackedIssues, now)) :
         availableMonths(trackedIssues, now)[k] = selectedMonth

\* C21, the state: while nothing has been loaded, no fetch is in flight.
NoFetchBeforeLoad == ~isInitialized => (inflight = <<>> /\ ~loading)

\* C21, the steps: a step that leaves the page not loaded writes nothing to
\* the store; the mount leaves every item saved before as it was, instead of
\* the defaults, and starts one fetch, for the owner and repo it loaded.
SavesAfterLoad ==
  /\ ~isInitialized' => localStorage' = localStorage
  /\ Mount =>
       /\ \A key \in Keys : localStorage[key] # NoItem => localStorage'[key] = localStorage[key]
       /\ inflight' = <<[owner |-> owner', repo |-> repo']>>
       /\ owner' = loadFromLocalStorage(localStorage, "repoOwner", "")
       /\ repo' = loadFromLocalStorage(localStorage, "repoName", "")

UserActionStep ==
  \/ \E issue \in Range(issues) : addToTracking(issue)
  \/ \E n \in Numbers : removeFromTracking(n)
  \/ \E n \in Numbers : \E s \in Statuses : updateIssueStatus(n, s)

\* The fields a fetched issue has.
FetchedFields == {"number", "html_url", "assignee", "merged"}

\* C22: a track, removal or status change made while a fetch is in flight
\* leaves the fetch in flight; and when a fetch succeeds the collection keeps
\* the entries it has at that moment, in their order, each with all but its
\* status and its fetched fields, and the entries the fetched list lacks
\* untouched: so what was done during the fetch is in the collection after it.
C22_InterleavedActionsKept ==
  [][/\ (loading /\ UserActionStep) => (inflight' = inflight /\ loading' /\ issues' = issues)
     /\ FetchSuccessStep =>
          /\ Len(trackedIssues') = Len(trackedIssues)
          /\ \A i \in 1..Len(trackedIssues) :
               /\ trackedIssues'[i].number = trackedIssues[i].number
               /\ DOMAIN trackedIssues'[i] = DOMAIN trackedIssues[i]
               /\ \A f \in DOMAIN trackedIssues[i] \ (FetchedFields \cup {"status"}) :
                    trackedIssues'[i][f] = trackedIssues[i][f]
               /\ trackedIssues[i].number \notin FetchedNumbers'
                    => trackedIssues'[i] = trackedIssues[i]]_vars

\* C22 witness: a fetch in flight on a page that has fetched before, over a
\* collection of two issues of which the second has a status set by hand and
\* the first is filed under an earlier month: the state a track and a status
\* change during the fetch lead to.
C22_Witness ==
  /\ loading /\ Len(inflight) = 1 /\ Len(issues) = 2
  /\ Len(trackedIssues) = 2
  /\ trackedIssues[2].status # deriveAtTrack(trackedIssues[2])
  /\ trackedIssues[1].monthYear # trackedIssues[2].monthYear

====
